---- MODULE Spec2Model ----
(***************************************************************************)
(* Model of the query client of src/apimart/query.py: the retry loop of    *)
(* main() (lines 301-373), the processing of the response that the loop    *)
(* leaves behind (lines 455-615), the decoding of a streamed body (lines   *)
(* 462-484) and the extraction of files from the text of the response      *)
(* (extract_and_save_files, lines 375-453).                                *)
(*                                                                         *)
(* The network is the environment: every call of requests.post and every   *)
(* line of the body is an input chosen with \E from a small set.           *)
(***************************************************************************)
EXTENDS Integers, Sequences, FiniteSets, TLC

(***************************************************************************)
(* Bounds of the model.                                                    *)
(***************************************************************************)
MaxRetriesBound == 5
MaxLines == 3
MaxSegments == 3

(***************************************************************************)
(* Inputs.                                                                 *)
(***************************************************************************)
\* values of --retries; 0 never enters the loop (a negative value behaves
\* like 0: `retry_count < max_retries` is false at once)
RetryBudgets == 0..MaxRetriesBound
\* HTTP status codes the server answers with
Statuses == {200, 404, 503, 504}
\* exception classes the except clauses of the retry loop tell apart
ExcKinds == {"Timeout", "ConnectionError", "Other"}
\* exceptions response.content raises while it reads a streamed body
\* (requests turns a read timeout into ConnectionError, a broken chunked
\* body into ChunkedEncodingError, which no except clause names)
BodyExcKinds == {"ConnectionError", "Other"}

NoResponse == [status |-> 0, attempt |-> -1, buffered |-> FALSE]
NoAttempt == [idx |-> -1, kind |-> "none", status |-> 0]

Report(kind, status, body, advice) ==
    [kind |-> kind, status |-> status, body |-> body, advice |-> advice]
NoReport == Report("none", 0, -1, "none")

VARIABLES
    max_retries,   \* --retries
    stream,        \* --stream
    pc,            \* position in main(): "loop", "after", "process", "decode", "done"
    retry_count,   \* retry_count
    response,      \* the variable `response`: status, the attempt that produced it,
                   \* and whether its body is in memory
    attempts,      \* number of requests.post calls made
    sleeps,        \* the time.sleep calls made: the retry_count each followed, its
                   \* duration, and the number of requests made when it began
    last,          \* the most recent attempt: its index and how it ended
    earlier5xx,    \* every attempt before the most recent one returned a 5xx status
    exitedBy,      \* how the while loop ended: "none", "break", "budget"
    report,        \* what main() surfaces about a failure
    line,          \* the loop variable `line`: the line iter_lines yielded last
    origin,        \* what the server sent, line by line: the kind of each line,
                   \* the content it encodes and its text
    printed,       \* the Deltas printed, in order
    written,       \* the Deltas written to the output file, in order
    full_content,  \* the accumulator full_content
    body,          \* the body of a non-streaming 200 response, once it is processed
    doc,           \* the segments the text handed to the extractor was assembled from
    content,       \* the argument `content` of extract_and_save_files
    saved_files    \* the files extract_and_save_files wrote, in order

vars == <<max_retries, stream, pc, retry_count, response, attempts, sleeps,
          last, earlier5xx, exitedBy, report, line, origin, printed, written,
          full_content, body, doc, content, saved_files>>

loopVars == <<retry_count, response, attempts, sleeps, last, earlier5xx, exitedBy>>
streamVars == <<line, origin, printed, written, full_content>>
extractVars == <<doc, content, saved_files>>

NoBody == [sent |-> FALSE, toks |-> <<>>]

(***************************************************************************)
(* Backoff: wait_time = 2 ** retry_count (lines 332, 343, 354).            *)
(***************************************************************************)
\* the backoff grows linearly instead of doubling
wait_time_Linear(rc) == 2 * rc

wait_time(rc) == 2 ^ rc

\* the loop sleeps after the last attempt of the budget too
SleepBeforeRetry_Always(rc) ==
    IF rc < max_retries
    THEN Append(sleeps, [after |-> rc, dur |-> wait_time(rc), made |-> attempts + 1])
    ELSE sleeps

\* `if retry_count < max_retries - 1: ... time.sleep(wait_time)`
SleepBeforeRetry(rc) ==
    IF rc < max_retries - 1
    THEN Append(sleeps, [after |-> rc, dur |-> wait_time(rc), made |-> attempts + 1])
    ELSE sleeps

\* the except clause an exception of the given kind reaches: Timeout and
\* ConnectionError sleep before the next attempt, any other exception does not
SleepsAfterException(kind, rc) ==
    IF kind \in {"Timeout", "ConnectionError"} THEN SleepBeforeRetry(rc) ELSE sleeps

(***************************************************************************)
(* Text on the wire.  A line is a sequence of tokens: punctuation, quoted  *)
(* strings and bare words.  The first token of a data line is the six      *)
(* characters "data: ".                                                    *)
(***************************************************************************)
P(x) == [k |-> "punct", v |-> x]
S(x) == [k |-> "string", v |-> x]
W(x) == [k |-> "word", v |-> x]

DataMarker == W("data: ")

\* line.startswith("data: ") (line 471)
StartsWithData(l) == Len(l) >= 1 /\ l[1] = DataMarker
\* the marker is left on the payload
StripMarker_Kept(l) == l

\* line[6:] (line 473)
StripMarker(l) == Tail(l)

(***************************************************************************)
(* JSON values as Python sees them after json.loads.                       *)
(***************************************************************************)
JNull == [t |-> "null"]
JBool(b) == [t |-> "bool", v |-> b]
JNum(w) == [t |-> "num", v |-> w]
JStr(s) == [t |-> "str", v |-> s]
JArr(seq) == [t |-> "arr", v |-> seq]
JObj(f) == [t |-> "obj", v |-> f]
EmptyDict == JObj(<<>>)

NumberWords == {"0", "42"}

ParseFail == [ok |-> FALSE, val |-> JNull, next |-> 0]
ParseOk(v, n) == [ok |-> TRUE, val |-> v, next |-> n]

IsTok(toks, i, tok) == i <= Len(toks) /\ toks[i] = tok

\* json.loads: a recursive-descent parse of the token sequence; a key that
\* occurs twice keeps its last value
RECURSIVE ParseValue(_, _), ParseMembers(_, _, _), ParseElements(_, _, _)

ParseValue(toks, i) ==
    IF i > Len(toks) THEN ParseFail
    ELSE LET tok == toks[i] IN
         IF tok.k = "string" THEN ParseOk(JStr(tok.v), i + 1)
         ELSE IF tok.k = "word" THEN
              IF tok.v = "null" THEN ParseOk(JNull, i + 1)
              ELSE IF tok.v = "true" THEN ParseOk(JBool(TRUE), i + 1)
              ELSE IF tok.v = "false" THEN ParseOk(JBool(FALSE), i + 1)
              ELSE IF tok.v \in NumberWords THEN ParseOk(JNum(tok.v), i + 1)
              ELSE ParseFail
         ELSE IF tok.v = "{" THEN
              IF IsTok(toks, i + 1, P("}")) THEN ParseOk(EmptyDict, i + 2)
              ELSE ParseMembers(toks, i + 1, <<>>)
         ELSE IF tok.v = "[" THEN
              IF IsTok(toks, i + 1, P("]")) THEN ParseOk(JArr(<<>>), i + 2)
              ELSE ParseElements(toks, i + 1, <<>>)
         ELSE ParseFail

\* "key" : value, then "," and more members or "}"
ParseMembers(toks, i, acc) ==
    IF i + 1 > Len(toks) \/ toks[i].k # "string" \/ toks[i + 1] # P(":")
    THEN ParseFail
    ELSE LET r == ParseValue(toks, i + 2) IN
         IF ~r.ok THEN ParseFail
         ELSE LET acc2 == (toks[i].v :> r.val) @@ acc IN
              IF IsTok(toks, r.next, P(",")) THEN ParseMembers(toks, r.next + 1, acc2)
              ELSE IF IsTok(toks, r.next, P("}")) THEN ParseOk(JObj(acc2), r.next + 1)
              ELSE ParseFail

\* value, then "," and more elements or "]"
ParseElements(toks, i, acc) ==
    LET r == ParseValue(toks, i) IN
    IF ~r.ok THEN ParseFail
    ELSE LET acc2 == Append(acc, r.val) IN
         IF IsTok(toks, r.next, P(",")) THEN ParseElements(toks, r.next + 1, acc2)
         ELSE IF IsTok(toks, r.next, P("]")) THEN ParseOk(JArr(acc2), r.next + 1)
         ELSE ParseFail

\* json.loads(text): the whole text must be one value (else JSONDecodeError)
json_loads(toks) ==
    LET r == ParseValue(toks, 1) IN
    IF r.ok /\ r.next = Len(toks) + 1 THEN r ELSE ParseFail

(***************************************************************************)
(* Python's view of a JSON value.                                          *)
(***************************************************************************)
\* bool(v)
Truthy(v) ==
    IF v.t = "null" THEN FALSE
    ELSE IF v.t = "bool" THEN v.v
    ELSE IF v.t = "num" THEN v.v # "0"
    ELSE IF v.t = "str" THEN v.v # ""
    ELSE IF v.t = "arr" THEN Len(v.v) > 0
    ELSE DOMAIN v.v # {}

\* d.get(key, default) for a dict d
DictGet(d, key, default) ==
    IF key \in DOMAIN d.v THEN d.v[key] ELSE default

Raised == [exc |-> TRUE, content |-> JNull]
Got(v) == [exc |-> FALSE, content |-> v]

\* lines 474-476: data.get("choices", []), then
\* choices[0].get("delta", {}).get("content", "") when choices is non-empty;
\* .get on anything but a dict, len() of a number and [0] on a dict raise
DeltaContent(data) ==
    IF data.t # "obj" THEN Raised
    ELSE LET choices == DictGet(data, "choices", JArr(<<>>)) IN
         IF ~Truthy(choices) THEN Got(JStr(""))
         ELSE IF choices.t # "arr" THEN Raised
         ELSE LET first == choices.v[1] IN
              IF first.t # "obj" THEN Raised
              ELSE LET delta == DictGet(first, "delta", EmptyDict) IN
                   IF delta.t # "obj" THEN Raised
                   ELSE Got(DictGet(delta, "content", JStr("")))

(***************************************************************************)
(* What the server sends.                                                  *)
(***************************************************************************)
\* the incremental texts the server encodes into frames
Contents == {"Hel", "lo", ""}

\* data: {"choices":[{"delta":{"content":c}}]}
FramePayload(c) ==
    <<P("{"), S("choices"), P(":"), P("["), P("{"), S("delta"), P(":"),
      P("{"), S("content"), P(":"), S(c), P("}"), P("}"), P("]"), P("}")>>
Frame(c) == <<DataMarker>> \o FramePayload(c)

Source(kind, c, toks) == [kind |-> kind, content |-> c, toks |-> toks]

\* well-formed data frames
FrameSources == {Source("frame", c, Frame(c)) : c \in Contents}

\* data: [DONE]
DoneLine == <<DataMarker, P("["), W("DONE"), P("]")>>
\* data: {"choices":        (cut off)
TruncatedLine == <<DataMarker, P("{"), S("choices"), P(":")>>
\* a frame followed by a stray brace
TrailingLine == Frame("Hel") \o <<P("}")>>
\* data lines json.loads rejects
MalformedSources ==
    {Source("malformed", "", t) : t \in {DoneLine, TruncatedLine, TrailingLine}}

\* a blank line, an SSE comment, and the marker without its space
BlankLine == <<>>
CommentLine == <<W(": keep-alive")>>
NoSpaceLine == <<W("data:")>> \o FramePayload("Hel")
IgnoredSources ==
    {Source("blank", "", BlankLine), Source("nodata", "", CommentLine),
     Source("nodata", "", NoSpaceLine)}

\* data lines whose payload is JSON without a first-choice delta text
NoTextPayloads ==
    { <<W("null")>>,
      <<P("["), P("]")>>,
      <<P("{"), P("}")>>,
      <<P("{"), S("choices"), P(":"), P("["), P("]"), P("}")>>,
      <<P("{"), S("choices"), P(":"), P("["), P("{"), P("}"), P("]"), P("}")>>,
      <<P("{"), S("choices"), P(":"), P("["), P("{"), S("delta"), P(":"),
        W("null"), P("}"), P("]"), P("}")>>,
      <<P("{"), S("choices"), P(":"), P("["), P("{"), S("delta"), P(":"),
        P("{"), S("content"), P(":"), W("null"), P("}"), P("}"), P("]"), P("}")>> }
NoTextSources == {Source("notext", "", <<DataMarker>> \o p) : p \in NoTextPayloads}

\* the lines a streamed body is made of
DecoderSources == FrameSources \cup MalformedSources \cup IgnoredSources \cup NoTextSources

Init ==
    /\ max_retries \in RetryBudgets
    /\ stream \in BOOLEAN
    /\ pc = "loop"
    /\ retry_count = 0
    /\ response = NoResponse
    /\ attempts = 0
    /\ sleeps = <<>>
    /\ last = NoAttempt
    /\ earlier5xx = TRUE
    /\ exitedBy = "none"
    /\ report = NoReport
    /\ line = <<>>
    /\ origin = <<>>
    /\ printed = <<>>
    /\ written = <<>>
    /\ full_content = ""
    /\ body = NoBody
    /\ doc = <<>>
    /\ content = <<>>
    /\ saved_files = <<>>

(***************************************************************************)
(* The retry loop, one action per way an iteration can go.                 *)
(***************************************************************************)
\* the loop runs once more than the budget allows
LoopCondition_OffByOne == retry_count <= max_retries

\* `while retry_count < max_retries` (line 306)
LoopCondition == retry_count < max_retries

InLoop == pc = "loop" /\ LoopCondition

\* only statuses below 400 leave the loop
Breaks_Below400(s) == s < 400

\* `if response.status_code < 500: break` (line 326)
Breaks(s) == s < 500

\* the attempt (none counts as one) returned a 5xx status
Was5xx(a) == a.kind = "none" \/ (a.kind = "status" /\ a.status >= 500)

\* requests.post returns and the body is read (line 324); status < 500 breaks
\* out of the loop, a 5xx sleeps while budget remains and counts the attempt
AttemptStatus(s) ==
    /\ InLoop
    /\ attempts' = attempts + 1
    /\ response' = [status |-> s, attempt |-> retry_count, buffered |-> TRUE]
    /\ last' = [idx |-> retry_count, kind |-> "status", status |-> s]
    /\ earlier5xx' = (earlier5xx /\ Was5xx(last))
    /\ IF Breaks(s)
       THEN /\ pc' = "after"
            /\ exitedBy' = "break"
            /\ UNCHANGED <<retry_count, sleeps>>
       ELSE /\ sleeps' = SleepBeforeRetry(retry_count)
            /\ retry_count' = retry_count + 1
            /\ UNCHANGED <<pc, exitedBy>>
    /\ UNCHANGED <<body, doc, content, saved_files>>
    /\ UNCHANGED <<max_retries, stream, report>>
    /\ UNCHANGED streamVars

\* an unexpected exception does not count against the budget
AttemptRaises_Uncounted(kind) ==
    /\ InLoop
    /\ attempts' = attempts + 1
    /\ last' = [idx |-> retry_count, kind |-> kind, status |-> 0]
    /\ earlier5xx' = (earlier5xx /\ Was5xx(last))
    /\ sleeps' = SleepsAfterException(kind, retry_count)
    /\ retry_count' = IF kind = "Other" THEN retry_count ELSE retry_count + 1
    /\ UNCHANGED <<body, doc, content, saved_files>>
    /\ UNCHANGED <<max_retries, stream, pc, response, exitedBy, report>>
    /\ UNCHANGED streamVars

\* requests.post raises: `response` keeps whatever an earlier attempt left
AttemptRaises(kind) ==
    /\ InLoop
    /\ attempts' = attempts + 1
    /\ last' = [idx |-> retry_count, kind |-> kind, status |-> 0]
    /\ earlier5xx' = (earlier5xx /\ Was5xx(last))
    /\ sleeps' = SleepsAfterException(kind, retry_count)
    /\ retry_count' = retry_count + 1
    /\ UNCHANGED <<body, doc, content, saved_files>>
    /\ UNCHANGED <<max_retries, stream, pc, response, exitedBy, report>>
    /\ UNCHANGED streamVars

\* stream=True: requests.post returns after the headers, `response` is
\* assigned, and response.content (line 324) raises while it reads the body
AttemptBodyRaises(s, kind) ==
    /\ InLoop
    /\ stream
    /\ attempts' = attempts + 1
    /\ response' = [status |-> s, attempt |-> retry_count, buffered |-> FALSE]
    /\ last' = [idx |-> retry_count, kind |-> kind, status |-> s]
    /\ earlier5xx' = (earlier5xx /\ Was5xx(last))
    /\ sleeps' = SleepsAfterException(kind, retry_count)
    /\ retry_count' = retry_count + 1
    /\ UNCHANGED <<body, doc, content, saved_files>>
    /\ UNCHANGED <<max_retries, stream, pc, exitedBy, report>>
    /\ UNCHANGED streamVars

\* the loop condition fails
LoopExit ==
    /\ pc = "loop"
    /\ ~LoopCondition
    /\ pc' = "after"
    /\ exitedBy' = "budget"
    /\ UNCHANGED <<body, doc, content, saved_files>>
    /\ UNCHANGED <<max_retries, stream, retry_count, response, attempts, sleeps,
                   last, earlier5xx, report>>
    /\ UNCHANGED streamVars

\* `if response is None: ... sys.exit(1)` (lines 367-373)
AfterLoop ==
    /\ pc = "after"
    /\ IF response = NoResponse
       THEN /\ report' = [kind |-> "noconnect", status |-> 0, body |-> -1,
                          advice |-> "none"]
            /\ pc' = "done"
       ELSE /\ pc' = "process"
            /\ UNCHANGED report
    /\ UNCHANGED <<body, doc, content, saved_files>>
    /\ UNCHANGED <<max_retries, stream>>
    /\ UNCHANGED loopVars
    /\ UNCHANGED streamVars

(***************************************************************************)
(* The Artifact Extractor: extract_and_save_files (lines 375-453).  A text *)
(* is a sequence of characters, each a one-character string, so that the   *)
(* regular expression and the searches of the function are computed on the *)
(* characters as Python computes them.                                     *)
(***************************************************************************)
\* the character U+0060; a string of the module cannot hold it, this atom
\* stands for it
Backtick == "BACKTICK"

UpperCase ==
    <<"A", "B", "C", "D", "E", "F", "G", "H", "I", "J", "K", "L", "M",
      "N", "O", "P", "Q", "R", "S", "T", "U", "V", "W", "X", "Y", "Z">>

LowerCase ==
    <<"a", "b", "c", "d", "e", "f", "g", "h", "i", "j", "k", "l", "m",
      "n", "o", "p", "q", "r", "s", "t", "u", "v", "w", "x", "y", "z">>

Digits == {"0", "1", "2", "3", "4", "5", "6", "7", "8", "9"}

\* the characters that \w matches in the texts of the model
WordChars ==
    {UpperCase[i] : i \in 1..26} \cup {LowerCase[i] : i \in 1..26}
        \cup Digits \cup {"_"}

LowerChar(ch) ==
    IF \E i \in 1..26 : UpperCase[i] = ch
    THEN LowerCase[CHOOSE i \in 1..26 : UpperCase[i] = ch]
    ELSE ch

\* str.lower()
lower(t) == [i \in 1..Len(t) |-> LowerChar(t[i])]

\* t[i:].startswith(pat), positions counted from 1
StartsAt(t, pat, i) ==
    /\ i >= 1
    /\ i + Len(pat) - 1 <= Len(t)
    /\ SubSeq(t, i, i + Len(pat) - 1) = pat

\* str.find(pat, start), positions counted from 1 and 0 for Python's -1
find(t, pat, start) ==
    LET hits == {i \in start..Len(t) : StartsAt(t, pat, i)}
    IN  IF hits = {} THEN 0
        ELSE CHOOSE i \in hits : \A j \in hits : i <= j

\* language_ext_map (lines 380-400)
language_ext_map ==
       (<<"p", "y", "t", "h", "o", "n">> :> <<"p", "y">>)
    @@ (<<"j", "a", "v", "a", "s", "c", "r", "i", "p", "t">> :> <<"j", "s">>)
    @@ (<<"t", "y", "p", "e", "s", "c", "r", "i", "p", "t">> :> <<"t", "s">>)
    @@ (<<"b", "a", "s", "h">> :> <<"s", "h">>)
    @@ (<<"s", "h", "e", "l", "l">> :> <<"s", "h">>)
    @@ (<<"h", "t", "m", "l">> :> <<"h", "t", "m", "l">>)
    @@ (<<"x", "m", "l">> :> <<"x", "m", "l">>)
    @@ (<<"j", "s", "o", "n">> :> <<"j", "s", "o", "n">>)
    @@ (<<"y", "a", "m", "l">> :> <<"y", "m", "l">>)
    @@ (<<"m", "a", "r", "k", "d", "o", "w", "n">> :> <<"m", "d">>)
    @@ (<<"s", "q", "l">> :> <<"s", "q", "l">>)
    @@ (<<"c", "s", "s">> :> <<"c", "s", "s">>)
    @@ (<<"j", "a", "v", "a">> :> <<"j", "a", "v", "a">>)
    @@ (<<"c", "p", "p">> :> <<"c", "p", "p">>)
    @@ (<<"c">> :> <<"c">>)
    @@ (<<"r", "u", "s", "t">> :> <<"r", "s">>)
    @@ (<<"g", "o">> :> <<"g", "o">>)
    @@ (<<"r", "u", "b", "y">> :> <<"r", "b">>)
    @@ (<<"p", "h", "p">> :> <<"p", "h", "p">>)

txt == <<"t", "x", "t">>

\* language_ext_map.get(language, language): extension without lower-casing
ResolveExt_Verbatim(language) ==
    IF language \in DOMAIN language_ext_map
    THEN language_ext_map[language]
    ELSE language

\* language_ext_map.get(language.lower(), language.lower()) (line 408)
ResolveExt(language) ==
    IF lower(language) \in DOMAIN language_ext_map
    THEN language_ext_map[lower(language)]
    ELSE lower(language)

Fence == <<Backtick, Backtick, Backtick>>

NewlineFence == <<"\n">> \o Fence

\* the end of the longest run of \w characters that starts at j: the first
\* position at or after j that holds no \w character
WordRunEnd(t, j) ==
    LET stops == {k \in j..Len(t) : t[k] \notin WordChars}
    IN  IF stops = {} THEN Len(t) + 1
        ELSE CHOOSE k \in stops : \A l \in stops : k <= l

NoMatch == [ok |-> FALSE]

\* code_block_pattern (line 402) tried at position i: three backticks, an
\* optional run of \w characters that a newline must follow, then the
\* shortest text (DOTALL) that a newline and three backticks follow
MatchAt(t, i) ==
    IF ~StartsAt(t, Fence, i) THEN NoMatch
    ELSE LET j == i + 3
             k == WordRunEnd(t, j)
         IN  IF k > Len(t) \/ t[k] # "\n" THEN NoMatch
             ELSE LET e == find(t, NewlineFence, k + 1)
                  IN  IF e = 0 THEN NoMatch
                      ELSE [ok |-> TRUE,
                            group1 |-> SubSeq(t, j, k - 1),
                            group2 |-> SubSeq(t, k + 1, e - 1),
                            end |-> e + 4]

RECURSIVE finditer(_, _)
\* re.finditer(code_block_pattern, content, re.DOTALL) from position i on:
\* the non-overlapping matches, leftmost first
finditer(t, i) ==
    LET p == find(t, Fence, i)
    IN  IF p = 0 THEN <<>>
        ELSE LET m == MatchAt(t, p)
             IN  IF m.ok THEN <<m>> \o finditer(t, m.end)
                 ELSE finditer(t, p + 1)

\* code_blocks[ext] = (language, code) (line 409): a dict keeps a key at
\* the place of its first insertion and holds the value written last
StoreBlock(code_blocks, ext, language, code) ==
    IF \E i \in 1..Len(code_blocks) : code_blocks[i].ext = ext
    THEN [i \in 1..Len(code_blocks) |->
            IF code_blocks[i].ext = ext
            THEN [ext |-> ext, language |-> language, code |-> code]
            ELSE code_blocks[i]]
    ELSE Append(code_blocks, [ext |-> ext, language |-> language, code |-> code])

RECURSIVE CodeBlocks(_, _)
\* the loop of lines 403-409 over the matches, from the dict acc
CodeBlocks(matches, acc) ==
    IF matches = <<>> THEN acc
    ELSE LET match == Head(matches)
             language == IF match.group1 # <<>> THEN match.group1 ELSE txt
             code == match.group2
             ext == ResolveExt(language)
         IN  CodeBlocks(Tail(matches), StoreBlock(acc, ext, language, code))

\* a file that the function writes: its name after output_{timestamp}, and
\* what is written to it
File(kind, ext, name, data) ==
    [kind |-> kind, ext |-> ext, name |-> name, data |-> data]

\* a code file named output_{timestamp}.{ext}
CodeSuffix_Dot == <<".">>

CodeSuffix == <<"_", "c", "o", "d", "e", ".">>
SvgExt == <<"s", "v", "g">>
HtmlExt == <<"h", "t", "m", "l">>

\* lines 412-419: one file output_{timestamp}_code.{ext} per key of the dict
CodeFiles(c) ==
    LET code_blocks == CodeBlocks(finditer(c, 1), <<>>)
    IN  [i \in 1..Len(code_blocks) |->
            File("code", code_blocks[i].ext,
                 CodeSuffix \o code_blocks[i].ext, code_blocks[i].code)]

SvgOpen == <<"<", "s", "v", "g">>
SvgClose == <<"<", "/", "s", "v", "g", ">">>
HtmlOpen == <<"<", "h", "t", "m", "l">>
HtmlClose == <<"<", "/", "h", "t", "m", "l", ">">>

\* lines 421-433: the opening tag is searched in the lower-cased text, the
\* closing tag in the text itself
SvgFiles(c) ==
    IF find(lower(c), SvgOpen, 1) # 0
    THEN LET start_idx == find(lower(c), SvgOpen, 1)
             end_idx == find(c, SvgClose, start_idx)
         IN  IF end_idx # 0
             THEN <<File("svg", SvgExt, <<".">> \o SvgExt,
                         SubSeq(c, start_idx, end_idx + 5))>>
             ELSE <<>>
    ELSE <<>>

\* lines 435-451: likewise, and without a closing tag the file runs to the
\* end of the text
HtmlFiles(c) ==
    IF find(lower(c), HtmlOpen, 1) # 0
    THEN LET start_idx == find(lower(c), HtmlOpen, 1)
             end_idx == find(c, HtmlClose, start_idx)
         IN  IF end_idx = 0
             THEN <<File("html", HtmlExt, <<".">> \o HtmlExt,
                         SubSeq(c, start_idx, Len(c)))>>
             ELSE <<File("html", HtmlExt, <<".">> \o HtmlExt,
                         SubSeq(c, start_idx, end_idx + 6))>>
    ELSE <<>>

\* extract_and_save_files(content): the files in the order they are saved
extract_and_save_files(c) ==
    IF c = <<>> THEN <<>>
    ELSE CodeFiles(c) \o SvgFiles(c) \o HtmlFiles(c)

\* a text with an SVG fragment in it
SvgText == "<svg></svg>"

\* the characters of the strings that the server sends as content
Characters ==
       ("" :> <<>>)
    @@ ("Hel" :> <<"H", "e", "l">>)
    @@ ("lo" :> <<"l", "o">>)
    @@ ("Hello" :> <<"H", "e", "l", "l", "o">>)
    @@ (SvgText :> SvgOpen \o <<">">> \o SvgClose)

RECURSIVE TextOf(_)
\* the characters of the string that parts add up to, as full_content adds
\* up the contents written (lines 479-480)
TextOf(parts) ==
    IF parts = <<>> THEN <<>>
    ELSE Characters[Head(parts)] \o TextOf(Tail(parts))

(***************************************************************************)
(* Processing of the response the loop left behind (lines 455-615).        *)
(***************************************************************************)
\* lines 538 and 580: 504 is told apart from the other 5xx
Advice(status) ==
    IF status = 504 THEN "gateway" ELSE IF status >= 500 THEN "server" ELSE "none"

\* status 200 with --stream: the streaming branch opens (lines 459-465)
BeginStream ==
    /\ pc = "process"
    /\ response.status = 200
    /\ stream
    /\ pc' = "decode"
    /\ UNCHANGED <<body, doc, content, saved_files>>
    /\ UNCHANGED <<max_retries, stream, report>>
    /\ UNCHANGED loopVars
    /\ UNCHANGED streamVars

\* str(content) as print shows it
PyStr(v) ==
    IF v.t = "str" THEN v.v
    ELSE IF v.t = "num" THEN v.v
    ELSE IF v.t = "bool" THEN "True"
    ELSE "<container>"

Quiet == [exc |-> FALSE, print |-> <<>>, add |-> <<>>]

\* a JSONDecodeError is not caught and leaves the loop
LineEffect_Uncaught(l) ==
    IF l = <<>> THEN Quiet
    ELSE IF ~StartsWithData(l) THEN Quiet
    ELSE LET r == json_loads(StripMarker(l)) IN
         IF ~r.ok THEN [exc |-> TRUE, print |-> <<>>, add |-> <<>>]
         ELSE LET dc == DeltaContent(r.val) IN
              IF dc.exc THEN [exc |-> TRUE, print |-> <<>>, add |-> <<>>]
              ELSE IF ~Truthy(dc.content) THEN Quiet
              ELSE IF dc.content.t = "str"
                   THEN [exc |-> FALSE, print |-> <<dc.content.v>>,
                         add |-> <<dc.content.v>>]
                   ELSE [exc |-> TRUE, print |-> <<PyStr(dc.content)>>,
                         add |-> <<>>]

\* the body of the for loop for one line (lines 467-483): what it prints,
\* what it writes and accumulates, and whether an exception leaves the loop
LineEffect(l) ==
    IF l = <<>> THEN Quiet
    ELSE IF ~StartsWithData(l) THEN Quiet
    ELSE LET r == json_loads(StripMarker(l)) IN
         IF ~r.ok THEN Quiet
         ELSE LET dc == DeltaContent(r.val) IN
              IF dc.exc THEN [exc |-> TRUE, print |-> <<>>, add |-> <<>>]
              ELSE IF ~Truthy(dc.content) THEN Quiet
              ELSE IF dc.content.t = "str"
                   THEN [exc |-> FALSE, print |-> <<dc.content.v>>,
                         add |-> <<dc.content.v>>]
                   ELSE [exc |-> TRUE, print |-> <<PyStr(dc.content)>>,
                         add |-> <<>>]

RECURSIVE Concat(_)
Concat(seq) == IF seq = <<>> THEN "" ELSE Head(seq) \o Concat(Tail(seq))

\* iter_lines yields one more line and the loop body runs on it; an
\* exception other than JSONDecodeError reaches the outer except (line 611).
\* The lines are those of the body that line 324 read whole: a read that
\* failed there closed the connection, and iter_lines on such a response
\* ends at once or raises
DecodeLine(src) ==
    /\ pc = "decode"
    /\ response.buffered
    /\ Len(origin) < MaxLines
    /\ line' = src.toks
    /\ origin' = Append(origin, src)
    /\ LET eff == LineEffect(src.toks) IN
       /\ printed' = printed \o eff.print
       /\ written' = written \o eff.add
       /\ full_content' = full_content \o Concat(eff.add)
       /\ IF eff.exc
          THEN /\ pc' = "done"
               /\ report' = Report("exception", 200, -1, "none")
          ELSE UNCHANGED <<pc, report>>
    /\ UNCHANGED <<body, doc, content, saved_files>>
    /\ UNCHANGED <<max_retries, stream>>
    /\ UNCHANGED loopVars

\* the call of extract_and_save_files on text (lines 486 and 514): the
\* files are written one after the other, and a write that fails (open or
\* f.write raising OSError) raises out of the function into the outer
\* except (line 611), the files written before it staying where they are
ExtractFrom(text, done) ==
    /\ content' = text
    /\ LET files == extract_and_save_files(text) IN
       \E n \in 0..Len(files) :
           /\ saved_files' = SubSeq(files, 1, n)
           /\ report' = IF n = Len(files) THEN done
                         ELSE Report("exception", 200, -1, "none")

\* iter_lines is exhausted: the stream is complete and the files are
\* extracted from full_content (lines 484-496)
StreamEnd ==
    /\ pc = "decode"
    /\ pc' = "done"
    /\ ExtractFrom(TextOf(written),
                   Report("stream_done", 200, response.attempt, "none"))
    /\ UNCHANGED <<body, doc>>
    /\ UNCHANGED <<max_retries, stream>>
    /\ UNCHANGED loopVars
    /\ UNCHANGED streamVars

\* iter_lines raises: only a body that line 324 failed to read is still
\* asked from the network here
StreamRaises ==
    /\ pc = "decode"
    /\ ~response.buffered
    /\ pc' = "done"
    /\ report' = Report("exception", 200, -1, "none")
    /\ UNCHANGED <<body, doc, content, saved_files>>
    /\ UNCHANGED <<max_retries, stream>>
    /\ UNCHANGED loopVars
    /\ UNCHANGED streamVars

\* {"choices":[{"message":{"content":c}}]}
Envelope(c) ==
    <<P("{"), S("choices"), P(":"), P("["), P("{"), S("message"), P(":"),
      P("{"), S("content"), P(":"), S(c), P("}"), P("}"), P("]"), P("}")>>

\* bodies of a non-streaming 200 response
Bodies ==
    { Envelope("Hello"), Envelope(""), Envelope(SvgText),
      <<P("{"), S("choices"), P(":")>>,
      <<W("<html>")>>,
      <<P("{"), P("}")>>,
      <<P("{"), S("choices"), P(":"), P("["), P("]"), P("}")>>,
      <<P("{"), S("choices"), P(":"), P("["), P("{"), P("}"), P("]"), P("}")>>,
      <<P("{"), S("choices"), P(":"), P("["), P("{"), S("message"), P(":"),
        P("{"), P("}"), P("}"), P("]"), P("}")>>,
      <<P("{"), S("choices"), P(":"), P("["), P("{"), S("message"), P(":"),
        W("null"), P("}"), P("]"), P("}")>>,
      <<P("["), P("]")>>,
      <<>> }

\* line 506: data.get("choices", [{}])[0].get("message", {}).get("content", "")
MessageContent(data) ==
    IF data.t # "obj" THEN Raised
    ELSE LET choices == DictGet(data, "choices", JArr(<<EmptyDict>>)) IN
         IF choices.t # "arr" THEN Raised
         ELSE IF Len(choices.v) = 0 THEN Raised
         ELSE LET first == choices.v[1] IN
              IF first.t # "obj" THEN Raised
              ELSE LET message == DictGet(first, "message", EmptyDict) IN
                   IF message.t # "obj" THEN Raised
                   ELSE Got(DictGet(message, "content", JStr("")))

\* a branch without text that saves the files of a text all the same
NothingDelivered_StillExtracts ==
    /\ UNCHANGED <<printed, written>>
    /\ content' = Characters[SvgText]
    /\ saved_files' = extract_and_save_files(Characters[SvgText])

\* a branch that prints no text of the response and extracts nothing
NothingDelivered == UNCHANGED <<printed, written, content, saved_files>>

\* the JSONDecodeError of response.json() is not caught by the inner except
ProcessNonStreaming_Uncaught(body_text) ==
    /\ pc = "process"
    /\ response.status = 200
    /\ ~stream
    /\ pc' = "done"
    /\ LET r == json_loads(body_text) IN
       IF ~r.ok
       THEN /\ report' = Report("exception", 200, -1, "none")
            /\ NothingDelivered
       ELSE LET mc == MessageContent(r.val) IN
            IF mc.exc
            THEN /\ report' = Report("exception", 200, -1, "none")
                 /\ NothingDelivered
            ELSE IF ~Truthy(mc.content)
            THEN /\ report' = Report("no_content", 200, response.attempt, "none")
                 /\ NothingDelivered
            ELSE IF mc.content.t = "str"
            THEN /\ printed' = <<mc.content.v>>
                 /\ written' = <<mc.content.v>>
                 /\ ExtractFrom(Characters[mc.content.v],
                                Report("content", 200, response.attempt, "none"))
            ELSE /\ report' = Report("exception", 200, -1, "none")
                 /\ NothingDelivered
    /\ body' = [sent |-> TRUE, toks |-> body_text]
    /\ UNCHANGED <<doc, line, origin, full_content>>
    /\ UNCHANGED <<max_retries, stream>>
    /\ UNCHANGED loopVars

\* status 200 without --stream (lines 497-531); the texts of the model are
\* shorter than the 500 characters that line 509 prints
ProcessNonStreaming(body_text) ==
    /\ pc = "process"
    /\ response.status = 200
    /\ ~stream
    /\ pc' = "done"
    /\ LET r == json_loads(body_text) IN
       IF ~r.ok
       THEN /\ report' = Report("parse_error", 200, response.attempt, "none")
            /\ NothingDelivered
       ELSE LET mc == MessageContent(r.val) IN
            IF mc.exc
            THEN /\ report' = Report("exception", 200, -1, "none")
                 /\ NothingDelivered
            ELSE IF ~Truthy(mc.content)
            THEN /\ report' = Report("no_content", 200, response.attempt, "none")
                 /\ NothingDelivered
            ELSE IF mc.content.t = "str"
            THEN /\ printed' = <<mc.content.v>>
                 /\ written' = <<mc.content.v>>
                 /\ ExtractFrom(Characters[mc.content.v],
                                Report("content", 200, response.attempt, "none"))
            ELSE /\ report' = Report("exception", 200, -1, "none")
                 /\ NothingDelivered
    /\ body' = [sent |-> TRUE, toks |-> body_text]
    /\ UNCHANGED <<doc, line, origin, full_content>>
    /\ UNCHANGED <<max_retries, stream>>
    /\ UNCHANGED loopVars

\* any other status (lines 532-609): the status and the advice are printed,
\* then response.text; reading the text of a body that line 324 failed to
\* read may raise into the outer except
ProcessFailed(textOk) ==
    /\ pc = "process"
    /\ response.status # 200
    /\ textOk \/ ~response.buffered
    /\ pc' = "done"
    /\ report' = Report(IF textOk THEN "failed" ELSE "exception",
                        response.status,
                        IF textOk THEN response.attempt ELSE -1,
                        Advice(response.status))
    /\ UNCHANGED <<body, doc, content, saved_files>>
    /\ UNCHANGED <<max_retries, stream>>
    /\ UNCHANGED loopVars
    /\ UNCHANGED streamVars

\* the lines of a streamed body in the runs of the whole program
CoreSources ==
    {Source("frame", "Hel", Frame("Hel")),
     Source("frame", SvgText, Frame(SvgText)),
     Source("malformed", "", DoneLine),
     Source("notext", "", <<DataMarker, W("null")>>)}

Next ==
    \/ \E s \in Statuses : AttemptStatus(s)
    \/ \E k \in ExcKinds : AttemptRaises(k)
    \/ \E s \in Statuses, k \in BodyExcKinds : AttemptBodyRaises(s, k)
    \/ LoopExit
    \/ AfterLoop
    \/ BeginStream
    \/ \E src \in CoreSources : DecodeLine(src)
    \/ StreamEnd
    \/ StreamRaises
    \/ \E b \in Bodies : ProcessNonStreaming(b)
    \/ \E textOk \in BOOLEAN : ProcessFailed(textOk)

Spec == Init /\ [][Next]_vars

\* one iteration of the while loop, or its exit
RetryLoop ==
    \/ \E s \in Statuses : AttemptStatus(s)
    \/ \E k \in ExcKinds : AttemptRaises(k)
    \/ \E s \in Statuses, k \in BodyExcKinds : AttemptBodyRaises(s, k)
    \/ LoopExit

\* the loop is sequential code and every request ends within its timeouts:
\* while an iteration can run, one does
FairSpec == Spec /\ WF_vars(RetryLoop)

(***************************************************************************)
(* The Stream Decoder on its own: the streaming branch as it opens after a *)
(* first attempt that returned HTTP 200 under the default budget, fed with *)
(* every kind of line.                                                     *)
(***************************************************************************)
DefaultMaxRetries == 5

InitDecoder ==
    /\ max_retries = DefaultMaxRetries
    /\ stream = TRUE
    /\ pc = "decode"
    /\ retry_count = 0
    /\ response = [status |-> 200, attempt |-> 0, buffered |-> TRUE]
    /\ attempts = 1
    /\ sleeps = <<>>
    /\ last = [idx |-> 0, kind |-> "status", status |-> 200]
    /\ earlier5xx = TRUE
    /\ exitedBy = "break"
    /\ report = NoReport
    /\ line = <<>>
    /\ origin = <<>>
    /\ printed = <<>>
    /\ written = <<>>
    /\ full_content = ""
    /\ body = NoBody
    /\ doc = <<>>
    /\ content = <<>>
    /\ saved_files = <<>>

NextDecoder ==
    \/ \E src \in DecoderSources : DecodeLine(src)
    \/ StreamEnd

SpecDecoder == InitDecoder /\ [][NextDecoder]_vars

(***************************************************************************)
(* The texts given to the Artifact Extractor.  A text is assembled from    *)
(* segments, a fenced block or a line of prose each, and the extractor     *)
(* receives the lines of the segments joined by newlines.                  *)
(***************************************************************************)
Block(tag, lines) == [kind |-> "block", tag |-> tag, lines |-> lines]
Prose(l) == [kind |-> "prose", tag |-> <<>>, lines |-> <<l>>]

NoTag == <<>>
TagPython == <<"p", "y", "t", "h", "o", "n">>
TagBash == <<"b", "a", "s", "h">>
TagShell == <<"s", "h", "e", "l", "l">>
TagR == <<"R">>
TagJavascript == <<"j", "a", "v", "a", "s", "c", "r", "i", "p", "t">>
TagRust == <<"r", "u", "s", "t">>
TagGo == <<"g", "o">>
TagGoCapital == <<"G", "o">>
TagSvg == <<"s", "v", "g">>
TagHtml == <<"h", "t", "m", "l">>

NoLines == <<>>
OneLine == << <<"A">> >>
TwoLines == << <<"B">>, <<"C">> >>
SvgLines == << <<"<", "s", "v", "g", ">">>, <<"<", "/", "s", "v", "g", ">">> >>
HtmlLines == << <<"<", "h", "t", "m", "l", ">">>, <<"<", "/", "h", "t", "m", "l", ">">> >>

\* blocks with no line, one line and two lines of content, tagged and not,
\* and a line of prose
BlockSegments ==
    { Block(NoTag, NoLines), Block(NoTag, OneLine),
      Block(TagPython, NoLines), Block(TagPython, OneLine),
      Block(TagPython, TwoLines), Block(TagBash, OneLine),
      Block(TagShell, TwoLines), Block(TagR, OneLine),
      Prose(<<"h", "i">>) }

\* lines of prose with the tags of an SVG or HTML fragment in them
FragmentSegments ==
    { Prose(<<"<", "s", "v", "g", ">">>), Prose(<<"<", "s", "v", "g", " ", "w", "=", "\"", "1", "\"", ">">>), Prose(<<"<", "S", "V", "G", ">">>),
      Prose(<<"<", "/", "s", "v", "g", ">">>), Prose(<<"<", "/", "S", "V", "G", ">">>),
      Prose(<<"<", "h", "t", "m", "l", ">">>), Prose(<<"<", "H", "T", "M", "L", ">">>),
      Prose(<<"<", "/", "h", "t", "m", "l", ">">>), Prose(<<"<", "/", "H", "T", "M", "L", ">">>),
      Prose(<<"x">>) }

SeqsUpTo(segs, n) == UNION {[1..k -> segs] : k \in 0..n}

\* a single block of each further tag, a block tagged svg beside an SVG
\* fragment, and blocks tagged svg and html that hold such a fragment
FurtherDocs ==
    { <<Block(TagJavascript, OneLine)>>, <<Block(TagRust, OneLine)>>,
      <<Block(TagGo, OneLine)>>, <<Block(TagGoCapital, OneLine)>>,
      <<Block(TagSvg, OneLine), Prose(<<"<", "s", "v", "g", ">">>), Prose(<<"<", "/", "s", "v", "g", ">">>)>>,
      <<Block(TagSvg, SvgLines)>>, <<Block(TagHtml, HtmlLines)>>,
      <<Block(TagSvg, SvgLines), Block(TagHtml, HtmlLines)>> }

Docs ==
    SeqsUpTo(BlockSegments, MaxSegments)
        \cup SeqsUpTo(FragmentSegments, MaxSegments)
        \cup FurtherDocs

\* the lines of a segment: a block is its opening delimiter line, its
\* content lines and its closing delimiter line
SegmentLines(seg) ==
    IF seg.kind = "block"
    THEN <<Fence \o seg.tag>> \o seg.lines \o <<Fence>>
    ELSE seg.lines

RECURSIVE DocLines(_)
DocLines(d) ==
    IF d = <<>> THEN <<>> ELSE SegmentLines(Head(d)) \o DocLines(Tail(d))

RECURSIVE Join(_)
\* "\n".join(lines)
Join(lines) ==
    IF lines = <<>> THEN <<>>
    ELSE IF Len(lines) = 1 THEN lines[1]
    ELSE lines[1] \o <<"\n">> \o Join(Tail(lines))

Render(d) == Join(DocLines(d))

(***************************************************************************)
(* The Artifact Extractor on its own: the non-streaming branch at the call *)
(* of line 514, after a first attempt that returned HTTP 200 with the text *)
(* in its envelope, for every text of Docs.                                *)
(***************************************************************************)
InitExtractor ==
    /\ max_retries = DefaultMaxRetries
    /\ stream = FALSE
    /\ pc = "extract"
    /\ retry_count = 0
    /\ response = [status |-> 200, attempt |-> 0, buffered |-> TRUE]
    /\ attempts = 1
    /\ sleeps = <<>>
    /\ last = [idx |-> 0, kind |-> "status", status |-> 200]
    /\ earlier5xx = TRUE
    /\ exitedBy = "break"
    /\ report = NoReport
    /\ line = <<>>
    /\ origin = <<>>
    /\ doc \in Docs
    /\ content = Render(doc)
    /\ printed = <<content>>
    /\ written = <<content>>
    /\ full_content = ""
    /\ body = [sent |-> TRUE, toks |-> Envelope(content)]
    /\ saved_files = <<>>

\* line 514: saved_files = extract_and_save_files(content)
ExtractAndSave ==
    /\ pc = "extract"
    /\ saved_files' = extract_and_save_files(content)
    /\ pc' = "done"
    /\ report' = Report("content", 200, response.attempt, "none")
    /\ UNCHANGED <<body, doc, content>>
    /\ UNCHANGED <<max_retries, stream>>
    /\ UNCHANGED loopVars
    /\ UNCHANGED streamVars

NextExtractor == ExtractAndSave

SpecExtractor == InitExtractor /\ [][NextExtractor]_vars

(***************************************************************************)
(* Properties.                                                             *)
(***************************************************************************)
RECURSIVE SumPow2(_)
\* 2^0 + 2^1 + ... + 2^(n-1)
SumPow2(n) == IF n <= 0 THEN 0 ELSE SumPow2(n - 1) + 2 ^ (n - 1)

RECURSIVE TotalSleep(_)
TotalSleep(sl) == IF sl = <<>> THEN 0 ELSE Head(sl).dur + TotalSleep(Tail(sl))

LoopOutcome ==
    IF exitedBy = "none" THEN "Attempting"
    ELSE IF exitedBy = "budget" THEN "Exhausted"
    ELSE IF response.status = 200 THEN "Succeeded"
    ELSE "Fatal"

IsFailure(a) == a.kind # "status" \/ a.status >= 500

\* C1 (safety part): at most max_retries requests are made; every failed
\* attempt, an unexpected exception included, has consumed one unit of the
\* budget; the loop ends by a break exactly on a status below 500 and by
\* exhaustion exactly after max_retries failed attempts
C1_Budget ==
    /\ attempts <= max_retries
    /\ attempts = retry_count + (IF exitedBy = "break" THEN 1 ELSE 0)
    /\ exitedBy = "break" =>
           /\ last.kind = "status" /\ last.status < 500
           /\ LoopOutcome \in {"Succeeded", "Fatal"}
    /\ exitedBy = "budget" =>
           /\ attempts = max_retries
           /\ attempts > 0 => IsFailure(last)
           /\ LoopOutcome = "Exhausted"

\* C1: for every budget and every sequence of attempt outcomes the retry
\* loop terminates, after at most max_retries requests, in one of Succeeded,
\* Fatal and Exhausted
C1_RetryLoopTerminates == [](C1_Budget) /\ <>(exitedBy # "none")

C1_Witness ==
    /\ exitedBy = "budget"
    /\ max_retries >= 3
    /\ attempts = max_retries
    /\ last.kind = "Other"

\* the sleeps are the first n of the doubling series, sleep i (0-based)
\* following attempt i and beginning when i + 1 requests have been made
DoublingSleeps(n) ==
    /\ Len(sleeps) = n
    /\ \A i \in 1..Len(sleeps) :
           sleeps[i] = [after |-> i - 1, dur |-> 2 ^ (i - 1), made |-> i]

\* C2: k attempts that return 5xx followed by one that returns 200, with
\* k < max_retries - 1, end the loop Succeeded after exactly k + 1 requests
\* and exactly k sleeps of 1, 2, 4, ... units, sleep i between attempts i
\* and i + 1
C2_BackoffThenSuccess ==
    (/\ last.kind = "status" /\ last.status = 200
     /\ earlier5xx
     /\ last.idx < max_retries - 1)
    => /\ LoopOutcome = "Succeeded"
       /\ attempts = last.idx + 1
       /\ DoublingSleeps(last.idx)

C2_Witness ==
    /\ last.kind = "status" /\ last.status = 200
    /\ earlier5xx
    /\ last.idx = 3
    /\ last.idx < max_retries - 1
    /\ pc = "done"

\* C3: when every attempt returns a 5xx status the loop makes exactly
\* max_retries requests and then ends Exhausted
C3_All5xxExhausts ==
    (earlier5xx /\ Was5xx(last))
    => /\ attempts <= max_retries
       /\ exitedBy \in {"none", "budget"}
       /\ (pc # "loop" => attempts = max_retries /\ LoopOutcome = "Exhausted")
       /\ (pc = "loop" /\ attempts = max_retries => ~InLoop)

C3_Witness ==
    /\ earlier5xx /\ Was5xx(last)
    /\ max_retries = 5
    /\ attempts = 5
    /\ LoopOutcome = "Exhausted"
    /\ pc = "done"

\* the most recent attempt returned an error status below 500
FatalAttempt == last.kind = "status" /\ last.status < 500 /\ last.status # 200

C4_State ==
    FatalAttempt
    => /\ LoopOutcome = "Fatal"
       /\ pc # "loop"
       /\ \A i \in 1..Len(sleeps) : sleeps[i].after < last.idx
       /\ (pc = "done" => report = Report("failed", last.status, last.idx, "none"))
       /\ (last.idx = 0 => attempts = 1 /\ sleeps = <<>>)

C4_Step == FatalAttempt => attempts' = attempts /\ sleeps' = sleeps /\ last' = last

\* C4: an attempt that returns a non-5xx error status ends the request in
\* Fatal at once, at whatever index: no request and no sleep follows it, and
\* the failure surfaced carries that attempt's status and body; as a first
\* attempt it makes the total 1 request and 0 sleeps
C4_FatalIsImmediate == [](C4_State) /\ [][C4_Step]_vars

C4_Witness ==
    /\ FatalAttempt
    /\ last.idx = 2
    /\ Len(sleeps) = 2
    /\ pc = "done"
    /\ report.kind = "failed"

\* C5: after every failed attempt at index i with i + 1 < max_retries,
\* whatever its kind, the loop sleeps 2^i units before attempt i + 1
C5_EveryRetrySleeps ==
    [][(/\ attempts' = attempts + 1
        /\ IsFailure(last')
        /\ retry_count + 1 < max_retries)
       => sleeps' = Append(sleeps, [after |-> retry_count, dur |-> 2 ^ retry_count,
                                    made |-> attempts'])]_vars

\* C6 as stated: the total sleep is at most the sum of 2^i for i in
\* [0, max_retries - 2)
C6_Original == TotalSleep(sleeps) <= SumPow2(max_retries - 2)

\* C6 amended: the total sleep of one request is at most the sum of 2^i for
\* i in [0, max_retries - 1), one sleep after every attempt but the last
C6_SleepBound == TotalSleep(sleeps) <= SumPow2(max_retries - 1)

C6_Witness ==
    /\ max_retries >= 4
    /\ TotalSleep(sleeps) = SumPow2(max_retries - 1)
    /\ pc = "done"

\* C7: when the budget is exhausted the failure reported is that of the last
\* attempt: after a final attempt that raised, no 5xx status of an earlier
\* attempt is presented; after a final attempt that returned a 5xx, that
\* status is presented, 504 apart from the other 5xx
C7_ReportsLastAttempt ==
    (pc = "done" /\ exitedBy = "budget" /\ attempts > 0)
    => IF last.kind = "status"
       THEN report = Report("failed", last.status, last.idx, Advice(last.status))
       ELSE ~(report.status >= 500 /\ response.attempt < last.idx)

\* an attempt was answered with a status below 500, which Transport counts
\* as Success, and the reading of its body has begun
BodyBegun == last.status # 0 /\ last.status < 500

IsPrefix(a, b) == Len(a) <= Len(b) /\ SubSeq(b, 1, Len(a)) = a

\* C8: once an attempt is a Success and the reading of its body has begun
\* no further request is made, a failure while the body is read included,
\* and the Deltas already emitted stay as they are
C8_NoRetryOnceBodyBegun ==
    [][/\ BodyBegun => attempts' = attempts
       /\ IsPrefix(printed, printed')]_vars

(***************************************************************************)
(* Stream Decoder.                                                         *)
(***************************************************************************)
RECURSIVE ExpectedDeltas(_)
\* the non-empty contents the server encoded into frames, in order
ExpectedDeltas(o) ==
    IF o = <<>> THEN <<>>
    ELSE (IF Head(o).kind = "frame" /\ Head(o).content # ""
          THEN <<Head(o).content>> ELSE <<>>) \o ExpectedDeltas(Tail(o))

OnlyKinds(kinds) == \A i \in 1..Len(origin) : origin[i].kind \in kinds

\* C9: on well-formed data frames the decoder emits the non-empty contents
\* in arrival order, each once, and the accumulator is at every point the
\* concatenation of the Deltas emitted so far
C9_DeltasInOrder ==
    OnlyKinds({"frame"})
    => /\ printed = ExpectedDeltas(origin)
       /\ written = printed
       /\ full_content = Concat(printed)
       /\ report.kind # "exception"

C9_Witness ==
    /\ Len(origin) = 2
    /\ origin[1] = Source("frame", "Hel", Frame("Hel"))
    /\ origin[2] = Source("frame", "lo", Frame("lo"))
    /\ printed = <<"Hel", "lo">>
    /\ full_content = "Hello"
    /\ pc = "done"

C10_State ==
    OnlyKinds({"frame", "malformed"})
    => /\ printed = ExpectedDeltas(origin)
       /\ full_content = Concat(printed)
       /\ report.kind # "exception"

C10_Step ==
    (Len(origin') = Len(origin) + 1 /\ origin'[Len(origin')].kind = "malformed")
    => /\ printed' = printed
       /\ written' = written
       /\ full_content' = full_content
       /\ pc' = "decode"

\* C10: a data line whose payload json.loads rejects, a [DONE] sentinel
\* included, is skipped: no Delta, accumulator unchanged, the stream goes on,
\* and the valid frames around it yield their Deltas in their order
C10_MalformedSkipped == [](C10_State) /\ [][C10_Step]_vars

C10_Witness ==
    /\ Len(origin) = 3
    /\ origin[1] = Source("frame", "Hel", Frame("Hel"))
    /\ origin[2] = Source("malformed", "", DoneLine)
    /\ origin[3] = Source("frame", "lo", Frame("lo"))
    /\ printed = <<"Hel", "lo">>
    /\ full_content = "Hello"
    /\ pc = "done"

\* C18: a line that carries no incremental text (blank, without the data
\* marker, or a data line whose JSON payload has no first-choice delta text)
\* emits no Delta, leaves the accumulator unchanged and does not stop the
\* decoding of the lines that follow
C18_NoTextLinesIgnored ==
    [][(/\ Len(origin') = Len(origin) + 1
        /\ origin'[Len(origin')].kind \in {"blank", "nodata", "notext"})
       => /\ printed' = printed
          /\ written' = written
          /\ full_content' = full_content
          /\ pc' = "decode"]_vars

\* C19: in streaming mode the first Delta is emitted before the rest of the
\* body is read from the network: the body is never in memory as a whole
\* when the first Delta is emitted
C19_FirstDeltaBeforeBodyRead ==
    [][(stream /\ printed = <<>> /\ printed' # <<>>) => ~response.buffered]_vars

(***************************************************************************)
(* Non-streaming envelope.                                                 *)
(***************************************************************************)
\* bodies that are not JSON: cut off, an HTML page, nothing at all
UnparseableBodies == {<<P("{"), S("choices"), P(":")>>, <<W("<html>")>>, <<>>}

\* C16: a non-streaming 200 response whose body is not JSON ends in the
\* parse-error outcome, which carries the raw body; no further request is
\* made and no artifact is extracted
C16_MalformedEnvelope ==
    (body.sent /\ body.toks \in UnparseableBodies)
    => /\ pc = "done"
       /\ report = Report("parse_error", 200, response.attempt, "none")
       /\ attempts = response.attempt + 1
       /\ saved_files = <<>>

C16_Witness ==
    /\ body.sent
    /\ body.toks = <<W("<html>")>>
    /\ report.kind = "parse_error"
    /\ pc = "done"

\* envelopes without text: no choices key, an empty choices list, no
\* message, no content, empty content
EmptyContentBodies ==
    { <<P("{"), P("}")>>,
      <<P("{"), S("choices"), P(":"), P("["), P("]"), P("}")>>,
      <<P("{"), S("choices"), P(":"), P("["), P("{"), P("}"), P("]"), P("}")>>,
      <<P("{"), S("choices"), P(":"), P("["), P("{"), S("message"), P(":"),
        P("{"), P("}"), P("}"), P("]"), P("}")>>,
      Envelope("") }

\* C17: a non-streaming 200 response whose envelope has an empty or missing
\* content field ends in the soft failure that surfaces the raw body, which
\* is neither the parse error nor the generic exception outcome
C17_EmptyContentIsSoftFailure ==
    (body.sent /\ body.toks \in EmptyContentBodies)
    => report = Report("no_content", 200, response.attempt, "none")

(***************************************************************************)
(* Properties of the Artifact Extractor, stated on the segments the text   *)
(* was assembled from and on the files the extractor saved.                *)
(***************************************************************************)
IsBlock(seg) == seg.kind = "block"
IsCode(f) == f.kind = "code"
IsSvg(f) == f.kind = "svg"
IsHtml(f) == f.kind = "html"

\* the blocks of a text in document order, and the content of a block
Blocks(d) == SelectSeq(d, IsBlock)
BlockContent(seg) == Join(seg.lines)

\* the extension the extractor gives to the tag of a block
BlockExt(seg) == ResolveExt(IF seg.tag = NoTag THEN txt ELSE seg.tag)

\* the code files with extension ext among the saved files
CodeFilesWithExt(ext) ==
    LET HasExt(f) == IsCode(f) /\ f.ext = ext
    IN  SelectSeq(saved_files, HasExt)

\* C11: when several fenced blocks of a text resolve to the same extension,
\* exactly one code file is saved for that extension and its content is the
\* content of the last of these blocks in document order
C11_LastBlockWins ==
    pc = "done" =>
        LET bs == Blocks(doc) IN
        \A i \in 1..Len(bs), j \in 1..Len(bs) :
            (/\ i < j
             /\ BlockExt(bs[i]) = BlockExt(bs[j])
             /\ \A k \in (j + 1)..Len(bs) : BlockExt(bs[k]) # BlockExt(bs[j]))
            => LET fs == CodeFilesWithExt(BlockExt(bs[j]))
               IN  Len(fs) = 1 /\ fs[1].data = BlockContent(bs[j])

\* the tag written on a delimiter line, the backticks left out
TagOfLine(l) == SubSeq(l, Len(Fence) + 1, Len(l))

\* a code file is accounted for under a rule Ext of resolution when some
\* delimiter line of the text carries a tag that Ext resolves to the
\* extension of the file, and the file holds the lines that follow it up to
\* a later delimiter line
ResolvedUnder(f, Ext(_)) ==
    LET lines == DocLines(doc) IN
    \E i \in 1..Len(lines), j \in 1..Len(lines) :
        /\ i + 1 < j
        /\ StartsAt(lines[i], Fence, 1)
        /\ StartsAt(lines[j], Fence, 1)
        /\ f.data = Join(SubSeq(lines, i + 1, j - 1))
        /\ f.ext = Ext(TagOfLine(lines[i]))
        /\ f.name = CodeSuffix \o f.ext

\* the tag taken character for character: the table's extension for a tag
\* of the table, txt for no tag, otherwise the tag itself
VerbatimExt(tag) ==
    IF tag = NoTag THEN txt
    ELSE IF tag \in DOMAIN language_ext_map THEN language_ext_map[tag]
    ELSE tag

\* the tag lower-cased first: the table's extension when the lower-cased tag
\* is in the table, txt for no tag, otherwise the lower-cased tag
LowerCasedExt(tag) ==
    IF tag = NoTag THEN txt
    ELSE LET low == [i \in 1..Len(tag) |-> LowerChar(tag[i])]
         IN  IF low \in DOMAIN language_ext_map THEN language_ext_map[low]
             ELSE low

\* C12 as stated: the extension of every code file is the table's extension
\* for a tag of the table, txt for a block without a tag, and otherwise the
\* tag itself, character for character
C12_Original ==
    pc = "done" =>
        \A n \in 1..Len(saved_files) :
            IsCode(saved_files[n]) => ResolvedUnder(saved_files[n], VerbatimExt)

\* C12: the extension of every code file is resolved from the tag of the
\* delimiter line that opens it after the tag is lower-cased: the table's
\* extension when the lower-cased tag is in the table, txt when there is no
\* tag, and otherwise the lower-cased tag
C12_ExtensionResolved ==
    pc = "done" =>
        \A n \in 1..Len(saved_files) :
            IsCode(saved_files[n]) => ResolvedUnder(saved_files[n], LowerCasedExt)

\* a block tagged R, which the table does not hold, is saved as _code.r
C12_Witness ==
    /\ pc = "done"
    /\ doc = <<Block(TagR, OneLine)>>
    /\ saved_files = <<File("code", <<"r">>, CodeSuffix \o <<"r">>, <<"A">>)>>

\* the first occurrence of pat in t from position start on, letter case
\* disregarded; 0 when there is none
FindAnyCase(t, pat, start) == find(lower(t), lower(pat), start)

\* C13: the SVG file is the part of the text from the first <svg, in any
\* letter case, to the first later </svg>, in any letter case, both tags
\* included; without a later closing tag, and without an opening tag, no SVG
\* file is saved; never more than one SVG file is saved
C13_SvgFragment ==
    pc = "done" =>
        LET svgs == SelectSeq(saved_files, IsSvg)
            s == FindAnyCase(content, SvgOpen, 1)
            e == IF s = 0 THEN 0 ELSE FindAnyCase(content, SvgClose, s)
        IN  IF s # 0 /\ e # 0
            THEN /\ Len(svgs) = 1
                 /\ svgs[1].data = SubSeq(content, s, e + Len(SvgClose) - 1)
            ELSE svgs = <<>>

\* C14: the HTML file is the part of the text from the first <html, in any
\* letter case, to the first later </html>, in any letter case, the closing
\* tag included; it runs to the end of the text only when no closing tag of
\* any letter case follows; never more than one HTML file is saved
C14_HtmlFragment ==
    pc = "done" =>
        LET htmls == SelectSeq(saved_files, IsHtml)
            s == FindAnyCase(content, HtmlOpen, 1)
            e == IF s = 0 THEN 0 ELSE FindAnyCase(content, HtmlClose, s)
        IN  IF s = 0 THEN htmls = <<>>
            ELSE /\ Len(htmls) = 1
                 /\ htmls[1].data =
                        IF e # 0
                        THEN SubSeq(content, s, e + Len(HtmlClose) - 1)
                        ELSE SubSeq(content, s, Len(content))

\* the code files among the saved files, in the order they were saved
SavedCode == SelectSeq(saved_files, IsCode)

\* C15: a text assembled only from fenced blocks with pairwise distinct
\* language tags gives one code file per block, every file holds the content
\* of its block unchanged, and so no file holds text of another block or of
\* a delimiter line
C15_RoundTrip ==
    (/\ pc = "done"
     /\ doc # <<>>
     /\ \A i \in 1..Len(doc) : IsBlock(doc[i])
     /\ \A i \in 1..Len(doc), j \in 1..Len(doc) :
            i # j => doc[i].tag # doc[j].tag)
    => \E perm \in [1..Len(doc) -> 1..Len(doc)] :
           /\ \A i \in 1..Len(doc), j \in 1..Len(doc) : i # j => perm[i] # perm[j]
           /\ Len(SavedCode) = Len(doc)
           /\ \A i \in 1..Len(doc) : SavedCode[perm[i]].data = BlockContent(doc[i])

\* C20: in a text of prose and fenced blocks whose extensions differ, the
\* code files are exactly the blocks: one file per block, a block with empty
\* content included, each holding what stands strictly between the two
\* delimiter lines of its block, and no file holds prose or part of a
\* delimiter line
C20_BlocksRecognised ==
    (/\ pc = "done"
     /\ \A i \in 1..Len(Blocks(doc)), j \in 1..Len(Blocks(doc)) :
            i # j => BlockExt(Blocks(doc)[i]) # BlockExt(Blocks(doc)[j]))
    => /\ Len(SavedCode) = Len(Blocks(doc))
       /\ \A i \in 1..Len(Blocks(doc)) :
              CodeFilesWithExt(BlockExt(Blocks(doc)[i])) =
                  <<File("code", BlockExt(Blocks(doc)[i]),
                         CodeSuffix \o BlockExt(Blocks(doc)[i]),
                         BlockContent(Blocks(doc)[i]))>>

(***************************************************************************)
(* Extraction within a run of the program.                                 *)
(***************************************************************************)
\* files are on disk only at the end of a run whose loop ended on a 200
\* response, whose envelope or stream was read without failure, and whose
\* text was printed and written before: the files come from that very text
C21_State ==
    saved_files # <<>> =>
        /\ pc = "done"
        /\ response.status = 200
        /\ LoopOutcome = "Succeeded"
        /\ report.kind \in {"content", "stream_done", "exception"}
        /\ printed # <<>>
        /\ written = printed
        /\ content = TextOf(printed)
        /\ \E n \in 1..Len(extract_and_save_files(content)) :
               saved_files = SubSeq(extract_and_save_files(content), 1, n)

\* the step that saves files ends the run, reads no further line of the
\* stream and takes nothing back of the text delivered; this holds as well
\* when the extraction fails
C21_Step ==
    (saved_files' # saved_files \/ content' # content) =>
        /\ pc # "done" /\ pc' = "done"
        /\ origin' = origin
        /\ IsPrefix(printed, printed') /\ IsPrefix(written, written')
        /\ full_content' = full_content
        /\ printed' # <<>> /\ written' = printed'
        /\ content' = TextOf(printed')

\* C21: files are extracted only from the text of a 200 response, after the
\* retry loop has ended and after the text was printed and written; a run
\* that ends in Fatal, in Exhausted, in a parse error of the envelope, in an
\* envelope without content or in a failure in the middle of the stream
\* saves no file, and a failure during the extraction leaves the text that
\* was delivered as it is
C21_ExtractionOnlyAfterDelivery == [](C21_State) /\ [][C21_Step]_vars

\* a streamed 200 response obtained after a retry, whose text holds an SVG
\* fragment, ended with the file saved
C21_Witness ==
    /\ pc = "done"
    /\ stream
    /\ attempts > 1
    /\ report.kind = "stream_done"
    /\ printed = <<SvgText>>
    /\ saved_files = SvgFiles(Characters[SvgText])
    /\ saved_files # <<>>

\* the name of a file of kind code is _code. and its extension, the name of
\* the SVG file is .svg and the name of the HTML file is .html (each after
\* the output_{timestamp} that all the names of a pass begin with)
NamedByKind(f) ==
    IF f.kind = "code" THEN f.name = <<"_", "c", "o", "d", "e", ".">> \o f.ext
    ELSE IF f.kind = "svg" THEN f.name = <<".", "s", "v", "g">>
    ELSE f.kind = "html" /\ f.name = <<".", "h", "t", "m", "l">>

\* C22: the files of one extraction pass have pairwise distinct names: the
\* code files have distinct extensions under the _code. suffix, the SVG and
\* the HTML file are named .svg and .html without it, so no file overwrites
\* another, a code block tagged svg or html beside an SVG or HTML fragment
\* included
C22_DistinctNames ==
    pc = "done" =>
        /\ \A i \in 1..Len(saved_files) : NamedByKind(saved_files[i])
        /\ \A i \in 1..Len(saved_files), j \in 1..Len(saved_files) :
               i # j => /\ saved_files[i].name # saved_files[j].name
                        /\ (IsCode(saved_files[i]) /\ IsCode(saved_files[j]))
                               => saved_files[i].ext # saved_files[j].ext

\* blocks tagged svg and html that hold an SVG and an HTML fragment give four
\* files: _code.svg, _code.html, .svg and .html
C22_Witness ==
    /\ pc = "done"
    /\ doc = <<Block(TagSvg, SvgLines), Block(TagHtml, HtmlLines)>>
    /\ Len(saved_files) = 4
    /\ saved_files[1].name = <<"_", "c", "o", "d", "e", ".", "s", "v", "g">>
    /\ saved_files[2].name = <<"_", "c", "o", "d", "e", ".", "h", "t", "m", "l">>
    /\ saved_files[3].name = <<".", "s", "v", "g">>
    /\ saved_files[4].name = <<".", "h", "t", "m", "l">>

====
